---- MODULE Spec2Model ----
(***************************************************************************)
(* heimgeist.sichter.kohärenz: the coherence scanner for wc-merger JSON    *)
(* snapshots (scripts/heimgeist_sichter_kohärenz.py).                      *)
(*                                                                         *)
(* JSON values are tagged records.  Scalars are [t, s, n]: t is the Python *)
(* type after json.load ("null", "bool", "int", "float", "str"), s the     *)
(* text of a str, n the value of a bool (0/1) or int, or the value of a    *)
(* float in tenths (945 is 94.5).  A list is [t |-> "list", items |-> seq] *)
(* and a dict is [t |-> "dict", f |-> function from its keys to values];   *)
(* a key is absent exactly when it is not in DOMAIN f.                     *)
(***************************************************************************)
EXTENDS Integers, Sequences, FiniteSets, TLC

VARIABLES
    pc,            \* position of main()
    exists,        \* in_path.exists()
    wellFormed,    \* the input file parses as JSON
    jsonFlag,      \* args.json
    content,       \* the JSON value the input file holds (when well formed)
    doc,           \* main's local doc, after _load_json
    rep,           \* main's local rep, after build_report
    outDir,        \* out_dir has been created
    mdFile,        \* lines of the written text report, or NoFile
    jsFile,        \* the written JSON sibling, or NoFile
    exitStatus,    \* process exit status, -1 while running
    err,           \* the exception that ended the run, "none" otherwise
    unc            \* the assessment _uncertainty returned last

vars == <<pc, exists, wellFormed, jsonFlag, content, doc, rep, outDir,
          mdFile, jsFile, exitStatus, err, unc>>

----------------------------------------------------------------------------
(* JSON values *)

JNull == [t |-> "null", s |-> "", n |-> 0]

JBool(b) == [t |-> "bool", s |-> "", n |-> IF b THEN 1 ELSE 0]

JInt(i) == [t |-> "int", s |-> "", n |-> i]

JFloat(tenths) == [t |-> "float", s |-> "", n |-> tenths]

JStr(str) == [t |-> "str", s |-> str, n |-> 0]

JList(items) == [t |-> "list", items |-> items]

JDict(f) == [t |-> "dict", f |-> f]

EmptyDict == <<>>

\* isinstance(v, dict) / list / str
IsDict(v) == v.t = "dict"

IsList(v) == v.t = "list"

IsStr(v) == v.t = "str"

\* isinstance(v, int): bool is a subclass of int in Python
IsInt(v) == v.t \in {"int", "bool"}

\* isinstance(v, (int, float))
IsIntOrFloat(v) == v.t \in {"int", "bool", "float"}

\* numeric value in tenths, for comparisons with float literals
Tenths(v) == IF v.t = "float" THEN v.n ELSE v.n * 10

\* Python truthiness of a JSON value
Truthy(v) ==
    CASE v.t = "null" -> FALSE
      [] v.t \in {"bool", "int", "float"} -> v.n # 0
      [] v.t = "str" -> v.s # ""
      [] v.t = "list" -> Len(v.items) > 0
      [] v.t = "dict" -> DOMAIN v.f # {}

\* v is True
IsTrue(v) == v.t = "bool" /\ v.n = 1

\* dict.get(k, default)
DictGet(d, k, default) == IF k \in DOMAIN d.f THEN d.f[k] ELSE default

----------------------------------------------------------------------------
(* str helpers *)

\* printable ASCII in code point order (without the grave accent)
Ascii ==
    " !\"#$%&'()*+,-./0123456789:;<=>?@ABCDEFGHIJKLMNOPQRSTUVWXYZ[\\]^_abcdefghijklmnopqrstuvwxyz{|}~"

CharAt(str, i) == SubSeq(str, i, i)

\* position of each character in code point order
OrdTable ==
    [c \in {CharAt(Ascii, i) : i \in 1..Len(Ascii)} |->
        CHOOSE i \in 1..Len(Ascii) : CharAt(Ascii, i) = c]

Ord(c) == OrdTable[c]

\* str.startswith
StartsWith(str, prefix) ==
    /\ Len(str) >= Len(prefix)
    /\ SubSeq(str, 1, Len(prefix)) = prefix

RECURSIVE RStrip(_, _)
\* str.rstrip(c)
RStrip(str, c) ==
    IF Len(str) > 0 /\ CharAt(str, Len(str)) = c
    THEN RStrip(SubSeq(str, 1, Len(str) - 1), c)
    ELSE str

\* bool(str.strip()): some character is not whitespace
StripNonEmpty(str) == \E i \in 1..Len(str) : CharAt(str, i) # " "

Upper == "ABCDEFGHIJKLMNOPQRSTUVWXYZ"

Lowercase == "abcdefghijklmnopqrstuvwxyz"

LowerChar(c) ==
    IF \E i \in 1..Len(Upper) : CharAt(Upper, i) = c
    THEN CharAt(Lowercase, CHOOSE i \in 1..Len(Upper) : CharAt(Upper, i) = c)
    ELSE c

RECURSIVE Lower(_)
\* str.lower
Lower(str) ==
    IF str = "" THEN ""
    ELSE LowerChar(CharAt(str, 1)) \o Lower(SubSeq(str, 2, Len(str)))

RECURSIVE StrLess(_, _)
\* a < b on str: lexicographic by code point
StrLess(a, b) ==
    IF b = "" THEN FALSE
    ELSE IF a = "" THEN TRUE
    ELSE IF CharAt(a, 1) = CharAt(b, 1)
         THEN StrLess(SubSeq(a, 2, Len(a)), SubSeq(b, 2, Len(b)))
         ELSE Ord(CharAt(a, 1)) < Ord(CharAt(b, 1))

RECURSIVE Sorted(_)
\* sorted(set of str)
Sorted(S) ==
    IF S = {} THEN <<>>
    ELSE LET m == CHOOSE x \in S : \A y \in S \ {x} : StrLess(x, y)
         IN <<m>> \o Sorted(S \ {m})

RECURSIVE Join(_, _)
\* sep.join(seq of str), joining the two halves of the sequence
Join(sep, parts) ==
    IF Len(parts) = 0 THEN ""
    ELSE IF Len(parts) = 1 THEN parts[1]
    ELSE LET h == Len(parts) \div 2
         IN Join(sep, SubSeq(parts, 1, h)) \o sep \o Join(sep, SubSeq(parts, h + 1, Len(parts)))

\* needle in haystack
Contains(haystack, needle) ==
    \E i \in 1..(Len(haystack) - Len(needle) + 1) :
        SubSeq(haystack, i, i + Len(needle) - 1) = needle

Digits == "0123456789"

RECURSIVE NatStr(_)
NatStr(i) ==
    IF i < 10 THEN CharAt(Digits, i + 1)
    ELSE NatStr(i \div 10) \o CharAt(Digits, (i % 10) + 1)

IntStr(i) == IF i < 0 THEN "-" \o NatStr(-i) ELSE NatStr(i)

Abs(i) == IF i < 0 THEN -i ELSE i

\* repr of a float given in tenths
FloatStr(n) ==
    (IF n < 0 THEN "-" ELSE "") \o NatStr(Abs(n) \div 10) \o "." \o NatStr(Abs(n) % 10)

\* str(v) as an f-string field renders it
PyStr(v) ==
    IF v.t = "null" THEN "None"
    ELSE IF v.t = "bool" THEN (IF v.n = 1 THEN "True" ELSE "False")
    ELSE IF v.t = "int" THEN IntStr(v.n)
    ELSE IF v.t = "float" THEN FloatStr(v.n)
    ELSE IF v.t = "str" THEN v.s
    ELSE IF v.t = "list" THEN "[...]"
    ELSE "{...}"

Quote == "'"

\* repr of a str without quotes or escapes in it
PyRepr(str) == Quote \o str \o Quote

----------------------------------------------------------------------------
(* the evaluator *)

Finding(severity, code, title, detail) ==
    [severity |-> severity, code |-> code, title |-> title, detail |-> detail]

\* a call either returns a value or raises
Return(v) == [exc |-> "none", val |-> v]

Raise(e) == [exc |-> e]

RECURSIVE _safe_get(_, _, _)
_safe_get(d, keys, default) ==
    IF Len(keys) = 0 THEN d
    ELSE IF ~IsDict(d) \/ Head(keys) \notin DOMAIN d.f THEN default
    ELSE _safe_get(d.f[Head(keys)], Tail(keys), default)

\* doc is a dict here: the caller has already used doc.get
_list_files(d) ==
    LET files == DictGet(d, "files", JNull)
    IN IF IsList(files) THEN SelectSeq(files.items, IsDict) ELSE <<>>

_path_set(files) ==
    {DictGet(files[i], "path", JNull).s :
        i \in {j \in 1..Len(files) : IsStr(DictGet(files[j], "path", JNull))}}

\* the loop adds files[i]'s path to dups exactly when it is in seen, that is
\* when an earlier record has the same string path
_count_duplicates(files) ==
    LET strs == {j \in 1..Len(files) : IsStr(DictGet(files[j], "path", JNull))}
        pathOf(j) == DictGet(files[j], "path", JNull).s
        dups == {pathOf(i) : i \in {j \in strs : \E k \in strs : k < j /\ pathOf(k) = pathOf(j)}}
    IN Sorted(dups)

\* has_prefix without the separator after the directory name
has_prefix_mut(paths, prefix) ==
    \E p \in paths : StartsWith(p, RStrip(prefix, "/"))

has_prefix(paths, prefix) ==
    \E p \in paths : StartsWith(p, RStrip(prefix, "/") \o "/")

F001 ==
    Finding("warn", "HG-SICHTER-001", "Kein .ai-context.yml sichtbar",
        "Viele Heimgewebe-Repos nutzen .ai-context.yml als Orientierungsanker. Fehlt hier (oder wurde durch Filter ausgeschlossen).")

F002 ==
    Finding("warn", "HG-SICHTER-002", "Kein .wgx/ sichtbar",
        "WGX-Motorik fehlt im Snapshot (oder wurde herausgefiltert). Falls das Repo zur Fleet gehört, ist das ein Drift-Signal.")

F003 ==
    Finding("info", "HG-SICHTER-003", "Kein contracts/ sichtbar",
        "Nicht jedes Repo braucht Contracts. Für zentrale Repos kann das aber ein Hinweis auf semantische Entkopplung sein.")

F004 ==
    Finding("info", "HG-SICHTER-004", "Keine docs/ sichtbar",
        "Dokumentation fehlt im Snapshot (oder wurde durch Filter ausgeschlossen). Das ist nicht per se falsch, aber erhöht Integrationsrisiko.")

\* the source's en dash is written "-" here
F005 ==
    Finding("info", "HG-SICHTER-005", "Keine GitHub Workflows sichtbar",
        "Kein CI sichtbar. Wenn das Repo produktiv ist, könnte das technische Schulden anzeigen - oder der Snapshot ist stark gefiltert.")

Marker001Missing(paths) ==
    ".ai-context.yml" \notin paths /\ ~has_prefix(paths, ".ai-context.yml/")

Marker002Missing(paths) == ~has_prefix(paths, ".wgx/")

Marker003Missing(paths) == ~has_prefix(paths, "contracts/")

Marker004Missing(paths) == ~has_prefix(paths, "docs/") /\ ~has_prefix(paths, "doc/")

Marker005Missing(paths) == ~has_prefix(paths, ".github/workflows/")

_heuristic_expected_markers(paths) ==
    (IF Marker001Missing(paths) THEN <<F001>> ELSE <<>>)
    \o (IF Marker002Missing(paths) THEN <<F002>> ELSE <<>>)
    \o (IF Marker003Missing(paths) THEN <<F003>> ELSE <<>>)
    \o (IF Marker004Missing(paths) THEN <<F004>> ELSE <<>>)
    \o (IF Marker005Missing(paths) THEN <<F005>> ELSE <<>>)

ExpectedContract == "wc-merge-agent"

ExpectedVersion == "v1"

\* contract != "wc-merge-agent" or ver != "v1"
ContractMismatch(contract, ver) ==
    \/ ~(IsStr(contract) /\ contract.s = ExpectedContract)
    \/ ~(IsStr(ver) /\ ver.s = ExpectedVersion)

F010(contract, ver) ==
    Finding("crit", "HG-SICHTER-010", "Unerwarteter Merge-Contract",
        "Erwartet wc-merge-agent/v1, gefunden: " \o PyStr(contract) \o "/" \o PyStr(ver)
        \o ". Ergebnis ist nur eingeschränkt interpretierbar.")

\* coverage < 95.0, in tenths
CoverageWarnBelow == 950

\* isinstance(coverage, (int, float)) and coverage < 95.0
CoverageLow(coverage) ==
    IsIntOrFloat(coverage) /\ Tenths(coverage) < CoverageWarnBelow

F011(coverage) ==
    Finding("warn", "HG-SICHTER-011", "Coverage < 95%",
        "Coverage " \o PyStr(coverage)
        \o "%: Hohe Chance auf blinde Flecken. Befunde sind eher Tendenzen als Aussagen.")

\* isinstance(max_file_bytes, int) and max_file_bytes not in (0,)
TruncationActive(max_file_bytes) == IsInt(max_file_bytes) /\ max_file_bytes.n # 0

F012(max_file_bytes) ==
    Finding("warn", "HG-SICHTER-012", "Datei-Kürzung aktiv (max_file_bytes != 0)",
        "max_file_bytes=" \o PyStr(max_file_bytes)
        \o ". Das ist semantisch riskant (Teilwahrheiten). Split wäre besser.")

\* isinstance(x, str) and x.strip()
FilterActive(x) == IsStr(x) /\ StripNonEmpty(x.s)

F013(path_filter) ==
    Finding("info", "HG-SICHTER-013", "Path-Filter aktiv",
        "path_filter=" \o PyRepr(path_filter.s)
        \o ". Marker können fehlen, weil sie außerhalb des Scope liegen.")

F014(ext_filter) ==
    Finding("info", "HG-SICHTER-014", "Extension-Filter aktiv",
        "ext_filter=" \o PyRepr(ext_filter.s) \o ". Struktur-Befunde sind ggf. verzerrt.")

\* dups[:50]
DupListCap == 50

DupPrefix == "Folgende Pfade sind mehrfach enthalten: "

\* the source's ellipsis character is written "..." here
DupEllipsis == " ..."

DupDetail(dups) ==
    DupPrefix
    \o Join(", ", SubSeq(dups, 1, IF Len(dups) < DupListCap THEN Len(dups) ELSE DupListCap))
    \o (IF Len(dups) > DupListCap THEN DupEllipsis ELSE "")

F015(dups) ==
    Finding("crit", "HG-SICHTER-015", "Doppelte Dateipfade im Merge", DupDetail(dups))

\* isinstance(profile, str) and profile.lower() in ("dev", "min")
ProfileReduced(profile) == IsStr(profile) /\ Lower(profile.s) \in {"dev", "min"}

F016(profile) ==
    Finding("info", "HG-SICHTER-016", "Profil ist nicht maximal",
        "profile=" \o PyRepr(profile.s)
        \o ". Für Kohärenz-Checks ist max oft sinnvoller (weniger blinde Flecken).")

\* not isinstance(scope, str) or not scope.strip()
ScopeMissing(scope) == ~IsStr(scope) \/ ~StripNonEmpty(scope.s)

F017 ==
    Finding("warn", "HG-SICHTER-017", "Scope nicht angegeben",
        "scope fehlt/leer. Mehrdeutigkeit steigt: Ist es ein Single-Repo- oder Multi-Repo-Snapshot?")

\* filters = doc.get("meta", {}).get("filters", {}): the second get needs a dict
MetaFilters(d) ==
    LET meta == DictGet(d, "meta", JDict(EmptyDict))
    IN IF IsDict(meta) THEN Return(DictGet(meta, "filters", JDict(EmptyDict)))
       ELSE Raise("AttributeError")

\* the findings of _meta_sanity once filters has been read
MetaSanityFindings(d, files, filters) ==
    LET contract == _safe_get(d, <<"meta", "contract">>, JNull)
        ver == _safe_get(d, <<"meta", "contract_version">>, JNull)
        profile == _safe_get(d, <<"meta", "profile">>, JNull)
        coverage == _safe_get(d, <<"coverage", "coverage_pct">>, JNull)
        max_file_bytes == _safe_get(d, <<"meta", "max_file_bytes">>, JNull)
        scope == DictGet(d, "scope", JNull)
        path_filter == IF IsDict(filters) THEN DictGet(filters, "path_filter", JNull) ELSE JNull
        ext_filter == IF IsDict(filters) THEN DictGet(filters, "ext_filter", JNull) ELSE JNull
        dups == _count_duplicates(files)
    IN (IF ContractMismatch(contract, ver) THEN <<F010(contract, ver)>> ELSE <<>>)
       \o (IF CoverageLow(coverage) THEN <<F011(coverage)>> ELSE <<>>)
       \o (IF TruncationActive(max_file_bytes) THEN <<F012(max_file_bytes)>> ELSE <<>>)
       \o (IF FilterActive(path_filter) THEN <<F013(path_filter)>> ELSE <<>>)
       \o (IF FilterActive(ext_filter) THEN <<F014(ext_filter)>> ELSE <<>>)
       \o (IF Len(dups) > 0 THEN <<F015(dups)>> ELSE <<>>)
       \o (IF ProfileReduced(profile) THEN <<F016(profile)>> ELSE <<>>)
       \o (IF ScopeMissing(scope) THEN <<F017>> ELSE <<>>)

_meta_sanity(d, files) ==
    LET filters == MetaFilters(d)
    IN IF filters.exc # "none" THEN Raise(filters.exc)
       ELSE Return(MetaSanityFindings(d, files, filters.val))

\* the score is kept in hundredths: 18 is 0.18
Baseline == 18

CoverageIncrement == 10

FilterIncrement == 8

ContextIncrement == 12

ScoreCap == 95

\* coverage < 100.0, in tenths
CoverageFull == 1000

CauseCoverage == "Coverage < 100%: Snapshot ist unvollständig (blinde Flecken)."

CauseFilter == "Filter aktiv: Struktur-Befunde können verzerrt sein."

CauseContext == "plan_only/code_only: Semantischer Kontext fehlt teilweise."

CauseSentinel ==
    "Keine dominanten Ungewissheits-Treiber erkannt (aber Snapshot bleibt Snapshot)."

UncertaintyNote ==
    "Ungewissheit ist hier produktiv: Sie verhindert, dass Snapshot-Befunde als Live-Wahrheit missverstanden werden."

\* isinstance(coverage, (int, float)) and coverage < 100.0
CoverageIncomplete(coverage) == IsIntOrFloat(coverage) /\ Tenths(coverage) < CoverageFull

\* the filter increment asking for both filters instead of either
FiltersTruthy_mut(filters) ==
    /\ IsDict(filters)
    /\ Truthy(DictGet(filters, "path_filter", JNull))
    /\ Truthy(DictGet(filters, "ext_filter", JNull))

\* isinstance(filters, dict) and (filters.get("path_filter") or filters.get("ext_filter"))
FiltersTruthy(filters) ==
    /\ IsDict(filters)
    /\ \/ Truthy(DictGet(filters, "path_filter", JNull))
       \/ Truthy(DictGet(filters, "ext_filter", JNull))

\* plan_only is True or code_only is True
ContextReduced(plan_only, code_only) == IsTrue(plan_only) \/ IsTrue(code_only)

Min(a, b) == IF a < b THEN a ELSE b

Max(a, b) == IF a > b THEN a ELSE b

\* max(0.0, min(0.95, score))
Clamp(score) == Max(0, Min(ScoreCap, score))

\* causes without the sentinel default
CausesOrSentinel_mut(causes) == causes

\* causes or [sentinel]
CausesOrSentinel(causes) == IF Len(causes) > 0 THEN causes ELSE <<CauseSentinel>>

_uncertainty(d) ==
    LET coverage == _safe_get(d, <<"coverage", "coverage_pct">>, JNull)
        filters == _safe_get(d, <<"meta", "filters">>, JDict(EmptyDict))
        plan_only == _safe_get(d, <<"meta", "plan_only">>, JNull)
        code_only == _safe_get(d, <<"meta", "code_only">>, JNull)
        c1 == CoverageIncomplete(coverage)
        c2 == FiltersTruthy(filters)
        c3 == ContextReduced(plan_only, code_only)
        score == Baseline + (IF c1 THEN CoverageIncrement ELSE 0)
                          + (IF c2 THEN FilterIncrement ELSE 0)
                          + (IF c3 THEN ContextIncrement ELSE 0)
        causes == (IF c1 THEN <<CauseCoverage>> ELSE <<>>)
                  \o (IF c2 THEN <<CauseFilter>> ELSE <<>>)
                  \o (IF c3 THEN <<CauseContext>> ELSE <<>>)
    IN [uncertainty_score |-> Clamp(score),
        causes |-> CausesOrSentinel(causes),
        note |-> UncertaintyNote]

Agent == "heimgeist.sichter.kohärenz"

Report(generated_at, input_path, meta, scope, coverage_pct, files_total, findings, uncertainty) ==
    [generated_at |-> generated_at, agent |-> Agent, input_path |-> input_path,
     meta |-> meta, scope |-> scope, coverage_pct |-> coverage_pct,
     files_total |-> files_total, findings |-> findings, uncertainty |-> uncertainty]

\* the marker findings put before the metadata-sanity findings
ExtendFindings_mut(ms, markers) == markers \o ms

\* findings.extend(_meta_sanity(...)); findings.extend(_heuristic_expected_markers(...))
ExtendFindings(ms, markers) == ms \o markers

\* the body of build_report for a dict; ms is the result of _meta_sanity
BuildReportDict(d, input_path, now, ms) ==
    LET files == _list_files(d)
        paths == _path_set(files)
        metaV == DictGet(d, "meta", JNull)
        scopeV == DictGet(d, "scope", JNull)
        coverage == _safe_get(d, <<"coverage", "coverage_pct">>, JNull)
        files_total == _safe_get(d, <<"meta", "total_files">>, JNull)
    IN Report(now, input_path,
              IF IsDict(metaV) THEN metaV ELSE JDict(EmptyDict),
              IF IsStr(scopeV) THEN scopeV.s ELSE "",
              IF IsIntOrFloat(coverage) THEN coverage ELSE JNull,
              IF IsInt(files_total) THEN files_total ELSE JNull,
              ExtendFindings(ms, _heuristic_expected_markers(paths)),
              _uncertainty(d))

\* _list_files calls doc.get first: a root that is no dict has no get
build_report(d, input_path, now) ==
    IF ~IsDict(d) THEN Raise("AttributeError")
    ELSE LET ms == _meta_sanity(d, _list_files(d))
         IN IF ms.exc # "none" THEN Raise(ms.exc)
            ELSE Return(BuildReportDict(d, input_path, now, ms.val))

----------------------------------------------------------------------------
(* the renderer: the text report as its sequence of lines; a line is its   *)
(* kind k and the values a, b that its f-string interpolates               *)

Line(k, a, b) == [k |-> k, a |-> a, b |-> b]

Blank == Line("blank", "", "")

\* a bucket for info that takes every finding that is neither crit nor warn
bucket_mut(findings, sev) ==
    IF sev = "info" THEN SelectSeq(findings, LAMBDA f : f.severity \notin {"crit", "warn"})
    ELSE SelectSeq(findings, LAMBDA f : f.severity = sev)

\* [f for f in rep.findings if f.severity == sev]
bucket(findings, sev) == SelectSeq(findings, LAMBDA f : f.severity = sev)

RECURSIVE FindingLines(_)
FindingLines(fs) ==
    IF Len(fs) = 0 THEN <<>>
    ELSE <<Line("finding", fs[1].code, fs[1].title), Line("detail", fs[1].detail, "")>>
         \o FindingLines(Tail(fs))

\* one turn of the loop over the three severities
SectionLines(findings, sev, title) ==
    LET fs == bucket(findings, sev)
    IN <<Line("section", title, IntStr(Len(fs)))>>
       \o (IF Len(fs) = 0 THEN <<Line("none", "_Keine._", ""), Blank>>
           ELSE FindingLines(fs) \o <<Blank>>)

RECURSIVE CauseLines(_)
CauseLines(cs) ==
    IF Len(cs) = 0 THEN <<>> ELSE <<Line("cause", cs[1], "")>> \o CauseLines(Tail(cs))

\* the source's en dash is written "-" here
IronicRemark ==
    "Wenn alles perfekt kohärent wäre, bräuchten wir den Sichter nicht - und dann wäre Heimgewebe vermutlich tot. Glückwunsch zur lebendigen Unordnung."

\* the score is rendered in hundredths
render_markdown(r) ==
    <<Line("h1", r.agent, ""), Blank,
      Line("generated_at", r.generated_at, ""),
      Line("input", r.input_path, "")>>
    \o (IF r.scope # "" THEN <<Line("scope", r.scope, "")>> ELSE <<>>)
    \o (IF r.coverage_pct # JNull THEN <<Line("coverage_pct", PyStr(r.coverage_pct), "")>> ELSE <<>>)
    \o (IF r.files_total # JNull THEN <<Line("total_files", PyStr(r.files_total), "")>> ELSE <<>>)
    \o <<Blank>>
    \o SectionLines(r.findings, "crit", "Kritisch")
    \o SectionLines(r.findings, "warn", "Warnungen")
    \o SectionLines(r.findings, "info", "Hinweise")
    \o <<Line("h2", "Ungewissheit", ""),
         Line("score", IntStr(r.uncertainty.uncertainty_score), ""),
         Line("causes_head", "Ursachen", "")>>
    \o CauseLines(r.uncertainty.causes)
    \o <<Line("note", r.uncertainty.note, ""), Blank,
         Line("h2", "Verdichtete Essenz", ""),
         Line("text", "Snapshot-Befunde sind Landkarten, keine Gerichtsakten.", ""), Blank,
         Line("h2", "Ironischer Nachsatz", ""),
         Line("text", IronicRemark, ""),
         Blank>>

----------------------------------------------------------------------------
(* main *)

NotSet == [t |-> "unset"]

NoFile == [written |-> FALSE, data |-> <<>>]

File(data) == [written |-> TRUE, data |-> data]

InputPath == "/data/snapshot.json"

\* values of _now_iso()
Clock == {"2026-01-01T00:00:00Z"}

\* raise SystemExit(msg) and an uncaught exception both end the process with status 1
Abort(e) ==
    /\ pc' = "aborted"
    /\ err' = e
    /\ exitStatus' = 1

\* out_dir.mkdir(parents=True, exist_ok=True)
MainMkdir ==
    /\ pc = "start"
    /\ outDir' = TRUE
    /\ pc' = "check"
    /\ UNCHANGED <<unc, exists, wellFormed, jsonFlag, content, doc, rep, mdFile, jsFile,
                   exitStatus, err>>

\* if not in_path.exists(): raise SystemExit(...)
MainInputMissing ==
    /\ pc = "check"
    /\ ~exists
    /\ Abort("SystemExit")
    /\ UNCHANGED <<unc, exists, wellFormed, jsonFlag, content, doc, rep, outDir, mdFile, jsFile>>

MainInputFound ==
    /\ pc = "check"
    /\ exists
    /\ pc' = "load"
    /\ UNCHANGED <<unc, exists, wellFormed, jsonFlag, content, doc, rep, outDir, mdFile, jsFile,
                   exitStatus, err>>

\* a main that opens the text report for writing before it loads the input
MainLoadFail_mut ==
    /\ pc = "load"
    /\ ~wellFormed
    /\ Abort("JSONDecodeError")
    /\ mdFile' = File(<<>>)
    /\ UNCHANGED <<unc, exists, wellFormed, jsonFlag, content, doc, rep, outDir, jsFile>>

\* doc = _load_json(in_path): json.load raises on malformed text
MainLoadFail ==
    /\ pc = "load"
    /\ ~wellFormed
    /\ Abort("JSONDecodeError")
    /\ UNCHANGED <<unc, exists, wellFormed, jsonFlag, content, doc, rep, outDir, mdFile, jsFile>>

MainLoad ==
    /\ pc = "load"
    /\ wellFormed
    /\ doc' = content
    /\ pc' = "build"
    /\ UNCHANGED <<unc, exists, wellFormed, jsonFlag, content, rep, outDir, mdFile, jsFile,
                   exitStatus, err>>

\* rep = build_report(doc, in_path), when it raises
MainBuildRaise ==
    /\ pc = "build"
    /\ \E now \in Clock :
          LET r == build_report(doc, InputPath, now)
          IN r.exc # "none" /\ Abort(r.exc)
    /\ UNCHANGED <<unc, exists, wellFormed, jsonFlag, content, doc, rep, outDir, mdFile, jsFile>>

\* rep = build_report(doc, in_path), when it returns
MainBuild ==
    /\ pc = "build"
    /\ \E now \in Clock :
          LET r == build_report(doc, InputPath, now)
          IN r.exc = "none" /\ rep' = r.val /\ unc' = r.val.uncertainty
    /\ pc' = "write_md"
    /\ UNCHANGED <<exists, wellFormed, jsonFlag, content, doc, outDir, mdFile, jsFile,
                   exitStatus, err>>

\* md_path.write_text(render_markdown(rep))
MainWriteMd ==
    /\ pc = "write_md"
    /\ mdFile' = File(render_markdown(rep))
    /\ pc' = "write_js"
    /\ UNCHANGED <<unc, exists, wellFormed, jsonFlag, content, doc, rep, outDir, jsFile,
                   exitStatus, err>>

\* if args.json: js_path.write_text(json.dumps(asdict(rep)))
MainWriteJson ==
    /\ pc = "write_js"
    /\ jsonFlag
    /\ jsFile' = File(rep)
    /\ pc' = "print"
    /\ UNCHANGED <<unc, exists, wellFormed, jsonFlag, content, doc, rep, outDir, mdFile,
                   exitStatus, err>>

MainSkipJson ==
    /\ pc = "write_js"
    /\ ~jsonFlag
    /\ pc' = "print"
    /\ UNCHANGED <<unc, exists, wellFormed, jsonFlag, content, doc, rep, outDir, mdFile, jsFile,
                   exitStatus, err>>

\* print(...); return 0
MainReturn ==
    /\ pc = "print"
    /\ exitStatus' = 0
    /\ pc' = "done"
    /\ UNCHANGED <<unc, exists, wellFormed, jsonFlag, content, doc, rep, outDir, mdFile, jsFile,
                   err>>

Next ==
    \/ MainMkdir
    \/ MainInputMissing
    \/ MainInputFound
    \/ MainLoadFail
    \/ MainLoad
    \/ MainBuildRaise
    \/ MainBuild
    \/ MainWriteMd
    \/ MainWriteJson
    \/ MainSkipJson
    \/ MainReturn

----------------------------------------------------------------------------
(* input documents *)

\* the key k absent, or k with one of the values
Opt(k, Vals) == {EmptyDict} \cup {k :> v : v \in Vals}

\* values of a type no field expects to be a mapping
WrongTypes == {JNull, JBool(TRUE), JInt(5), JStr("x"), JList(<<>>)}

\* roots that are not a mapping
NonMappingRoots == {JNull, JBool(FALSE), JInt(7), JStr("doc"), JList(<<JStr("a")>>)}

FileRec(p) == JDict("path" :> JStr(p))

\* docs that vary the shape of meta and of the other top-level fields
MetaDicts ==
    {JDict(a @@ b @@ c @@ d @@ e @@ f) :
        a \in Opt("contract", {JStr("wc-merge-agent"), JStr("other")}),
        b \in Opt("contract_version", {JStr("v1"), JStr("v2")}),
        c \in Opt("profile", {JStr("Dev")}),
        d \in Opt("max_file_bytes", {JInt(1024)}),
        e \in Opt("total_files", {JInt(3)}),
        f \in Opt("filters", {JStr("x"), JDict("path_filter" :> JStr("src"))})}

DocsMeta ==
    {JDict(m @@ s @@ c @@ f) :
        m \in Opt("meta", WrongTypes \cup MetaDicts),
        s \in Opt("scope", {JStr("repo"), JInt(1)}),
        c \in Opt("coverage", {JStr("x"), JDict("coverage_pct" :> JInt(90))}),
        f \in Opt("files", {JStr("x"),
                 JList(<<FileRec("README.md"), FileRec("docs/a.md"), FileRec("README.md")>>)})}

\* docs that vary what the coverage, filter and context rules read
CoverageValues ==
    {JInt(90), JFloat(949), JInt(95), JFloat(999), JInt(100), JStr("50"), JBool(TRUE), JNull}

FilterDicts ==
    {JDict(a @@ b) :
        a \in Opt("path_filter", {JStr(""), JStr(" "), JStr("src"), JInt(7)}),
        b \in Opt("ext_filter", {JStr(".py"), JStr(" ")})}

UncMetaDicts ==
    {JDict(a @@ b @@ c) :
        a \in Opt("filters", {JStr("x"), JNull} \cup FilterDicts),
        b \in Opt("plan_only", {JBool(TRUE), JBool(FALSE), JInt(1)}),
        c \in Opt("code_only", {JBool(TRUE), JStr("yes")})}

DocsUnc ==
    {JDict(m @@ c) :
        m \in Opt("meta", {JStr("x")} \cup UncMetaDicts),
        c \in Opt("coverage", {JStr("x")} \cup {JDict(p) : p \in Opt("coverage_pct", CoverageValues)})}

\* docs that vary the files list: entries that are no file records, and
\* records that repeat a path
MaxFiles == 4

FileEntries ==
    {JStr("x"), JDict(EmptyDict), JDict("path" :> JInt(1)),
     FileRec("a"), FileRec("b"), FileRec("a/b")}

SeqsUpTo(S, n) == UNION {[1..k -> S] : k \in 0..n}

\* n paths, each listed twice
RepeatedPaths(n) ==
    [i \in 1..(2 * n) |-> FileRec("f" \o NatStr(IF i > n THEN i - n ELSE i))]

DocsFiles ==
    {JDict(m @@ ("files" :> JList(fs))) :
        m \in Opt("meta", {JDict(("contract" :> JStr("wc-merge-agent"))
                                 @@ ("contract_version" :> JStr("v1")))}),
        fs \in SeqsUpTo(FileEntries, MaxFiles)
               \cup {RepeatedPaths(DupListCap), RepeatedPaths(DupListCap + 1)}}

\* docs that vary the set of observed paths
MarkerPaths ==
    {".ai-context.yml", ".ai-context.yml/x", ".wgx", ".wgx/profile.yml",
     "contracts", "contracts/a.json", "docs/a.md", "doc/a.md", "src/docs/a.md",
     ".github/workflows", ".github/workflows/ci.yml"}

PathList(S) == LET ps == Sorted(S) IN [i \in 1..Len(ps) |-> FileRec(ps[i])]

DocsMarkers ==
    {JDict(EmptyDict)} \cup {JDict("files" :> JList(PathList(S))) : S \in SUBSET MarkerPaths}

AllDocs == NonMappingRoots \cup DocsMeta \cup DocsUnc \cup DocsFiles \cup DocsMarkers

Init0 ==
    /\ pc = "start"
    /\ jsonFlag \in BOOLEAN
    /\ doc = NotSet
    /\ rep = NotSet
    /\ outDir = FALSE
    /\ mdFile = NoFile
    /\ jsFile = NoFile
    /\ exitStatus = -1
    /\ err = "none"
    /\ unc = NotSet

\* the input file is missing, malformed, or holds one of D
InitWith(D) ==
    /\ Init0
    /\ \/ exists = FALSE /\ wellFormed = FALSE /\ content = NotSet
       \/ exists = TRUE /\ wellFormed = FALSE /\ content = NotSet
       \/ exists = TRUE /\ wellFormed = TRUE /\ content \in D

Init == InitWith(AllDocs)

Spec == Init /\ [][Next]_vars

----------------------------------------------------------------------------
(* _uncertainty applied to every document, as a function of its own *)

InitUncertainty ==
    /\ pc = "uncertainty"
    /\ doc \in AllDocs
    /\ content = NotSet
    /\ exists = TRUE
    /\ wellFormed = TRUE
    /\ jsonFlag = FALSE
    /\ rep = NotSet
    /\ outDir = FALSE
    /\ mdFile = NoFile
    /\ jsFile = NoFile
    /\ exitStatus = -1
    /\ err = "none"
    /\ unc = NotSet

UncertaintyStep ==
    /\ pc = "uncertainty"
    /\ unc' = _uncertainty(doc)
    /\ pc' = "uncertainty_done"
    /\ UNCHANGED <<exists, wellFormed, jsonFlag, content, doc, rep, outDir, mdFile, jsFile,
                   exitStatus, err>>

NextUncertainty == UncertaintyStep

SpecUncertainty == InitUncertainty /\ [][NextUncertainty]_vars

----------------------------------------------------------------------------
(* render_markdown applied to every Report, as a function of its own *)

MaxFindings == 3

RenderFindings ==
    {Finding(sev, code, "title " \o code, "detail " \o code) :
        sev \in {"crit", "warn", "info", "debug"}, code \in {"A", "B"}}

RenderReports ==
    {Report("2026-01-01T00:00:00Z", InputPath, JDict(EmptyDict), scope, JNull, JNull, fs,
            _uncertainty(JDict(EmptyDict))) :
        scope \in {"", "repo"}, fs \in SeqsUpTo(RenderFindings, MaxFindings)}

InitRender ==
    /\ pc = "render"
    /\ rep \in RenderReports
    /\ doc = NotSet
    /\ content = NotSet
    /\ exists = TRUE
    /\ wellFormed = TRUE
    /\ jsonFlag = FALSE
    /\ outDir = FALSE
    /\ mdFile = NoFile
    /\ jsFile = NoFile
    /\ exitStatus = -1
    /\ err = "none"
    /\ unc = NotSet

RenderStep ==
    /\ pc = "render"
    /\ mdFile' = File(render_markdown(rep))
    /\ pc' = "rendered"
    /\ UNCHANGED <<unc, exists, wellFormed, jsonFlag, content, doc, rep, outDir, jsFile,
                   exitStatus, err>>

NextRender == RenderStep

SpecRender == InitRender /\ [][NextRender]_vars

----------------------------------------------------------------------------
(* vocabulary of the properties *)

HasKey(d, k) == IsDict(d) /\ k \in DOMAIN d.f

\* build_report has been called on doc, and has returned or raised
BuildCalled ==
    \/ pc \in {"write_md", "write_js", "print", "done"}
    \/ pc = "aborted" /\ err \notin {"SystemExit", "JSONDecodeError"}

CountCode(fs, code) == Cardinality({i \in 1..Len(fs) : fs[i].code = code})

FindingOf(fs, code) == fs[CHOOSE i \in 1..Len(fs) : fs[i].code = code]

\* exactly one finding with the code, and it has the severity
Emitted(fs, code, sev) == CountCode(fs, code) = 1 /\ FindingOf(fs, code).severity = sev

RECURSIVE IsSubsequence(_, _)
IsSubsequence(a, b) ==
    IF Len(a) = 0 THEN TRUE
    ELSE IF Len(b) = 0 THEN FALSE
    ELSE IF a[1] = b[1] THEN IsSubsequence(Tail(a), Tail(b))
    ELSE IsSubsequence(a, Tail(b))

InSeq(x, sq) == \E i \in 1..Len(sq) : sq[i] = x

\* the entries of doc.files, when it is a list
FileItems(d) ==
    IF HasKey(d, "files") /\ IsList(d.f["files"]) THEN d.f["files"].items ELSE <<>>

\* x is a file record with a string path
HasStrPath(x) == HasKey(x, "path") /\ IsStr(x.f["path"])

ObservedPaths(d) ==
    LET items == FileItems(d)
    IN {items[i].f["path"].s : i \in {j \in 1..Len(items) : HasStrPath(items[j])}}

\* the paths that two or more file records share
DuplicatedPaths(d) ==
    LET items == FileItems(d)
        recs == {j \in 1..Len(items) : HasStrPath(items[j])}
    IN {items[i].f["path"].s :
           i \in {j \in recs : \E k \in recs :
                      k # j /\ items[k].f["path"].s = items[j].f["path"].s}}

Begins(paths, prefix) == \E p \in paths : StartsWith(p, prefix)

\* meta.contract and meta.contract_version are both declared with these values
DeclaredPairIs(d, contract, ver) ==
    /\ HasKey(d, "meta")
    /\ HasKey(d.f["meta"], "contract")
    /\ d.f["meta"].f["contract"] = JStr(contract)
    /\ HasKey(d.f["meta"], "contract_version")
    /\ d.f["meta"].f["contract_version"] = JStr(ver)

\* coverage.coverage_pct is present, a JSON number, and below 95.0
CoveragePctBelow95(d) ==
    /\ HasKey(d, "coverage")
    /\ HasKey(d.f["coverage"], "coverage_pct")
    /\ d.f["coverage"].f["coverage_pct"].t \in {"int", "float"}
    /\ Tenths(d.f["coverage"].f["coverage_pct"]) < 950

RuleOrder ==
    <<"HG-SICHTER-010", "HG-SICHTER-011", "HG-SICHTER-012", "HG-SICHTER-013",
      "HG-SICHTER-014", "HG-SICHTER-015", "HG-SICHTER-016", "HG-SICHTER-017",
      "HG-SICHTER-001", "HG-SICHTER-002", "HG-SICHTER-003", "HG-SICHTER-004",
      "HG-SICHTER-005">>

Codes(fs) == [i \in 1..Len(fs) |-> fs[i].code]

----------------------------------------------------------------------------
(* properties *)

\* C1: for every document whose root is a mapping, build_report returns a
\* Report and never aborts, whatever the shape of the nested fields.
C1_BuildReportNeverAborts ==
    (IsDict(doc) /\ BuildCalled) => (pc # "aborted" /\ rep # NotSet)

\* C2: when two or more file records share a string path, the findings hold
\* exactly one HG-SICHTER-015, it is crit, and its detail contains every
\* duplicated path; when no path occurs twice there is no HG-SICHTER-015.
C2_DuplicatePathFinding ==
    (IsDict(doc) /\ BuildCalled) =>
        IF DuplicatedPaths(doc) # {}
        THEN /\ rep # NotSet
             /\ Emitted(rep.findings, "HG-SICHTER-015", "crit")
             /\ \A p \in DuplicatedPaths(doc) :
                    Contains(FindingOf(rep.findings, "HG-SICHTER-015").detail, p)
        ELSE rep # NotSet => CountCode(rep.findings, "HG-SICHTER-015") = 0

\* C3: the score of _uncertainty lies in [0, 0.95] and is the baseline 0.18
\* plus 0.10, 0.08 and 0.12 for the increments that fired; causes is never
\* empty: one cause per fired increment, or the sentinel alone when none fired.
C3_UncertaintyShape ==
    unc # NotSet =>
        LET cs == unc.causes
            fired(c) == IF InSeq(c, cs) THEN 1 ELSE 0
        IN /\ unc.uncertainty_score \in 0..95
           /\ unc.uncertainty_score =
                  Min(95, 18 + 10 * fired(CauseCoverage) + 8 * fired(CauseFilter)
                             + 12 * fired(CauseContext))
           /\ Len(cs) >= 1
           /\ \/ cs = <<CauseSentinel>>
              \/ IsSubsequence(cs, <<CauseCoverage, CauseFilter, CauseContext>>)
           /\ (cs = <<CauseSentinel>>) <=> (unc.uncertainty_score = 18)

C3_Witness ==
    /\ pc = "uncertainty_done"
    /\ unc.uncertainty_score = 48
    /\ unc.causes = <<CauseCoverage, CauseFilter, CauseContext>>

\* C4: a run of main that ends in one of the three errors (input missing,
\* input not well-formed JSON, root not a mapping) has a non-zero status and
\* has written neither the text report nor the JSON sibling.
C4_NoOutputOnAbort ==
    (/\ pc = "aborted"
     /\ \/ err = "SystemExit"
        \/ err = "JSONDecodeError"
        \/ err = "AttributeError" /\ ~IsDict(doc))
    => (exitStatus # 0 /\ ~mdFile.written /\ ~jsFile.written)

C4_Witness ==
    /\ pc = "aborted"
    /\ err = "AttributeError"
    /\ doc \in NonMappingRoots
    /\ outDir
    /\ exitStatus = 1
    /\ mdFile = NoFile

\* C5: when the declared pair (meta.contract, meta.contract_version) differs
\* from ("wc-merge-agent", "v1"), also when either is missing, the findings
\* hold exactly one crit HG-SICHTER-010; when it is the expected pair, none.
C5_WrongContractFinding ==
    (IsDict(doc) /\ BuildCalled) =>
        IF DeclaredPairIs(doc, "wc-merge-agent", "v1")
        THEN rep # NotSet => CountCode(rep.findings, "HG-SICHTER-010") = 0
        ELSE rep # NotSet /\ Emitted(rep.findings, "HG-SICHTER-010", "crit")

\* C6: each marker finding is emitted exactly when its marker is absent from
\* the observed paths; a path equal to a directory marker's name does not
\* satisfy the marker; for the empty document all five findings fire.
C6_MarkerFindings ==
    rep # NotSet =>
        LET ps == ObservedPaths(doc)
            fs == rep.findings
            Iff(absent, code, sev) ==
                IF absent THEN Emitted(fs, code, sev) ELSE CountCode(fs, code) = 0
        IN /\ Iff(".ai-context.yml" \notin ps /\ ~Begins(ps, ".ai-context.yml/"),
                  "HG-SICHTER-001", "warn")
           /\ Iff(~Begins(ps, ".wgx/"), "HG-SICHTER-002", "warn")
           /\ Iff(~Begins(ps, "contracts/"), "HG-SICHTER-003", "info")
           /\ Iff(~Begins(ps, "docs/") /\ ~Begins(ps, "doc/"), "HG-SICHTER-004", "info")
           /\ Iff(~Begins(ps, ".github/workflows/"), "HG-SICHTER-005", "info")
           /\ (doc = JDict(EmptyDict) =>
                  \A c \in {"HG-SICHTER-001", "HG-SICHTER-002", "HG-SICHTER-003",
                            "HG-SICHTER-004", "HG-SICHTER-005"} : CountCode(fs, c) = 1)

C6_Witness ==
    /\ rep # NotSet
    /\ ObservedPaths(doc) = {".wgx", "contracts", "doc/a.md", ".github/workflows/ci.yml"}
    /\ CountCode(rep.findings, "HG-SICHTER-002") = 1
    /\ CountCode(rep.findings, "HG-SICHTER-003") = 1
    /\ CountCode(rep.findings, "HG-SICHTER-004") = 0
    /\ CountCode(rep.findings, "HG-SICHTER-005") = 0

\* C7: when coverage.coverage_pct is present, numeric and < 95.0 the findings
\* hold HG-SICHTER-011 with severity warn; when it is absent, non-numeric or
\* >= 95.0 there is no HG-SICHTER-011.
C7_LowCoverageFinding ==
    (IsDict(doc) /\ BuildCalled) =>
        IF CoveragePctBelow95(doc)
        THEN /\ rep # NotSet
             /\ \E i \in 1..Len(rep.findings) :
                    /\ rep.findings[i].code = "HG-SICHTER-011"
                    /\ rep.findings[i].severity = "warn"
        ELSE rep # NotSet => CountCode(rep.findings, "HG-SICHTER-011") = 0

\* the lines of the written text report
ReportLines == mdFile.data

\* positions of the section headers, in the order they appear
SectionHeads(lines) == {i \in 1..Len(lines) : lines[i].k = "section"}

NthHead(lines, n) ==
    CHOOSE i \in SectionHeads(lines) :
        Cardinality({j \in SectionHeads(lines) : j < i}) = n - 1

\* the lines of the section whose header is at i, up to its closing blank line
SectionBody(lines, i) ==
    LET e == CHOOSE j \in (i + 1)..Len(lines) :
                 /\ lines[j].k = "blank"
                 /\ \A m \in (i + 1)..(j - 1) : lines[m].k # "blank"
    IN SubSeq(lines, i + 1, e - 1)

RECURSIVE ListedIn(_)
\* the findings a section body lists: a finding line and its detail line each
ListedIn(body) ==
    IF Len(body) = 0 THEN <<>>
    ELSE IF body[1].k = "finding" /\ Len(body) >= 2 /\ body[2].k = "detail"
         THEN <<[code |-> body[1].a, title |-> body[1].b, detail |-> body[2].a]>>
              \o ListedIn(SubSeq(body, 3, Len(body)))
         ELSE ListedIn(Tail(body))

RECURSIVE OfSeverity(_, _)
\* the findings of one severity, in their order in the report
OfSeverity(fs, sev) ==
    IF Len(fs) = 0 THEN <<>>
    ELSE (IF fs[1].severity = sev
          THEN <<[code |-> fs[1].code, title |-> fs[1].title, detail |-> fs[1].detail]>>
          ELSE <<>>)
         \o OfSeverity(Tail(fs), sev)

SectionTitles == <<"Kritisch", "Warnungen", "Hinweise">>

SectionSeverities == <<"crit", "warn", "info">>

HasPlaceholder(body) == \E i \in 1..Len(body) : body[i].k = "none" /\ body[i].a = "_Keine._"

\* C8: render_markdown places every crit, warn and info finding in exactly
\* one of the sections Kritisch, Warnungen, Hinweise (in that order), each
\* section lists its findings in their order in report.findings, the count in
\* its header is the number it lists, and it shows _Keine._ exactly when it
\* lists none.
C8_SectionsListFindings ==
    mdFile.written =>
        LET lines == ReportLines
        IN /\ Cardinality(SectionHeads(lines)) = 3
           /\ \A n \in 1..3 :
                 LET i == NthHead(lines, n)
                     body == SectionBody(lines, i)
                     listed == ListedIn(body)
                 IN /\ lines[i].a = SectionTitles[n]
                    /\ listed = OfSeverity(rep.findings, SectionSeverities[n])
                    /\ lines[i].b = IntStr(Len(listed))
                    /\ Len(body) = IF Len(listed) = 0 THEN 1 ELSE 2 * Len(listed)
                    /\ HasPlaceholder(body) <=> (Len(listed) = 0)
           /\ Cardinality({j \in 1..Len(lines) : lines[j].k = "finding"})
                  = Cardinality({j \in 1..Len(rep.findings) :
                        InSeq(rep.findings[j].severity, SectionSeverities)})

C8_Witness ==
    /\ pc = "rendered"
    /\ Len(rep.findings) = 3
    /\ rep.findings[1].severity = "info"
    /\ rep.findings[2].severity = "crit"
    /\ rep.findings[3].severity = "info"
    /\ rep.findings[1].code # rep.findings[3].code
    /\ HasPlaceholder(SectionBody(ReportLines, NthHead(ReportLines, 2)))
    /\ Len(ListedIn(SectionBody(ReportLines, NthHead(ReportLines, 3)))) = 2

\* C9: the findings of build_report are a subsequence of the fixed rule
\* order 010..017, 001..005: metadata-sanity findings precede marker
\* findings, the order within each family is fixed, no code occurs twice.
C9_FindingsFollowRuleOrder ==
    rep # NotSet => IsSubsequence(Codes(rep.findings), RuleOrder)

C9_Witness ==
    /\ rep # NotSet
    /\ Len(rep.findings) >= 9
    /\ CountCode(rep.findings, "HG-SICHTER-010") = 1
    /\ CountCode(rep.findings, "HG-SICHTER-015") = 1
    /\ CountCode(rep.findings, "HG-SICHTER-017") = 1
    /\ CountCode(rep.findings, "HG-SICHTER-001") = 1
    /\ CountCode(rep.findings, "HG-SICHTER-005") = 1

\* C10: in one report, HG-SICHTER-011 comes with the coverage cause and
\* HG-SICHTER-013 or HG-SICHTER-014 with the filter cause; in both cases the
\* score is above the baseline 0.18 and the sentinel cause is absent.
C10_FindingsImplyCauses ==
    rep # NotSet =>
        LET fs == rep.findings
            u == rep.uncertainty
        IN /\ CountCode(fs, "HG-SICHTER-011") > 0 =>
                 /\ InSeq(CauseCoverage, u.causes)
                 /\ u.uncertainty_score > 18
                 /\ ~InSeq(CauseSentinel, u.causes)
           /\ (CountCode(fs, "HG-SICHTER-013") > 0 \/ CountCode(fs, "HG-SICHTER-014") > 0) =>
                 /\ InSeq(CauseFilter, u.causes)
                 /\ u.uncertainty_score > 18
                 /\ ~InSeq(CauseSentinel, u.causes)

C10_Witness ==
    /\ rep # NotSet
    /\ CountCode(rep.findings, "HG-SICHTER-011") = 1
    /\ CountCode(rep.findings, "HG-SICHTER-013") = 0
    /\ CountCode(rep.findings, "HG-SICHTER-014") = 1
    /\ rep.uncertainty.causes = <<CauseCoverage, CauseFilter>>

====
